---- MODULE Spec2Model ----
(***************************************************************************)
(* The liquid-glass Filter component (Filter.tsx): the reactive cells it   *)
(* derives from its props (1-D refraction field, maximum displacement,     *)
(* bitmaps, encoded URLs, scales) and the SVG filter graph it renders.     *)
(*                                                                         *)
(* Numbers.  Every real-valued quantity (scales, slopes, blur radii,       *)
(* refractive index, displacement samples) is an integer count of tenths:  *)
(* 0.8 is 8, 1.5 is 15, stdDeviation 10 is 100.  Pixel sizes (width,       *)
(* height, radius, bezel width, glass thickness) are whole pixels.         *)
(*                                                                         *)
(* Props.  A prop is a tagged value: absent (undefined), a plain number,   *)
(* or a MotionValue object, identified by its name; mv holds the current   *)
(* value of every MotionValue, the caller's and the derived ones.          *)
(*                                                                         *)
(* Canvas.  context says whether canvas.getContext("2d") yields a          *)
(* rendering context; pass is the outcome of the last render or frame.     *)
(* Under Spec the context is always there; SpecCanvas lets it come and go. *)
(*                                                                         *)
(* Switch.  Ratios (checked, xRatio, xDragRatio) are integer thousandths:  *)
(* checked 1 is 1000, the liquid threshold 0.08 is 80.  Pointer positions  *)
(* are whole pixels and TRAVEL is in tenths of a pixel.  The Filter specs  *)
(* leave the Switch as constructed; SpecSwitch leaves its Filter as        *)
(* mounted.                                                                *)
(*                                                                         *)
(* Slider.  Positions (x, overshoot, the constraints) are integer          *)
(* thousandths of a pixel.  Progress values are numerators over a fixed    *)
(* denominator, so that every comparison and product of the x change       *)
(* handler is exact: linearProgress over totalSlideRange, mappedProgress   *)
(* over MappedUnit, easedProgress and value over ValueUnit (value 100 is   *)
(* ValueUnit).  SpecSlider leaves the Filter as the Slider mounts it.      *)
(***************************************************************************)
EXTENDS Integers, Sequences, FiniteSets, TLC

VARIABLES props, mv, written, flushed, recomputed, graph, writes, context, pass

\* The Switch (Switch.tsx): its MotionValues, the position spring's value,
\* and the pointer as the browser sees it: where it is, the last event
\* delivered, and how far the press-release-click gesture has got.
VARIABLES checked, pointerDown, forceActive, xDragRatio, initialPointerX,
          startDragRatio, previousPointerX, velocityX, xRatio,
          pointerX, event, phase

\* The Slider (Slider.tsx): its MotionValues (sliderX is x, sliderValue is
\* value, sliderPointerDown is pointerDown), the drag gesture as the library
\* sees it, and the animations that write x and overshoot.
VARIABLES sliderX, sliderValue, overshoot, sliderPointerDown, gesture, momentum, snap,
          overshootAnimation

filterVars == <<props, mv, written, flushed, recomputed, graph, writes, context, pass>>

switchVars ==
  <<checked, pointerDown, forceActive, xDragRatio, initialPointerX, startDragRatio,
    previousPointerX, velocityX, xRatio, pointerX, event, phase>>

sliderVars ==
  <<sliderX, sliderValue, overshoot, sliderPointerDown, gesture, momentum, snap, overshootAnimation>>

controlVars == <<switchVars, sliderVars>>

vars == <<filterVars, controlVars>>

\* ------------------------------------------------------------------ bounds

\* Writes to caller MotionValues in one behaviour.
MaxWrites == 2

\* Sampling resolution of the 1-D field (the solver's sample count).
Samples == 2

\* --------------------------------------------------------- tagged values

Absent == [kind |-> "absent"]

Num(n) == [kind |-> "number", value |-> n]

Motion(name) == [kind |-> "motion", name |-> name]

Undefined == [kind |-> "undefined"]

\* JavaScript truthiness of a prop or of a hook result: undefined and the
\* number 0 are falsy, every object (a MotionValue included) is truthy.
Truthy(v) ==
  CASE v.kind = "absent" -> FALSE
    [] v.kind = "undefined" -> FALSE
    [] v.kind = "number" -> v.value # 0
    [] v.kind = "motion" -> TRUE

\* v !== undefined
Defined(v) == v.kind # "absent"

\* a ?? b
Coalesce(a, b) == IF Defined(a) THEN a ELSE b

\* getValueOrMotion: the current value of a MotionValue, a plain value as is.
getValueOrMotion(v, m) == IF v.kind = "motion" THEN m[v.name] ELSE v.value

\* Product of two reals held in tenths.
Times(a, b) == (a * b) \div 10

Abs(v) == IF v < 0 THEN -v ELSE v

MinusInfinity == "-Infinity"

\* Math.max(...values): -Infinity for no argument.
MathMax(S) == IF S = {} THEN MinusInfinity ELSE CHOOSE v \in S : \A w \in S : w <= v

Range(s) == {s[i] : i \in DOMAIN s}

\* ------------------------------------------------- external collaborators

\* Weight of sample i of the bezel cross-section: symmetric about the
\* midpoint and growing from the band's edges towards it.
Weight(i) == IF i <= Samples + 1 - i THEN i ELSE Samples + 1 - i

\* Sign of the lateral shift for a surface profile.
ProfileSign(fn) == IF fn = "CONCAVE" THEN -1 ELSE 1

\* RefractionFieldSolver's error condition: a negative thickness or bezel
\* width is a configuration error.
ConfigurationError(glassThickness, bezelWidth) == glassThickness < 0 \/ bezelWidth < 0

\* calculateDisplacementMap (RefractionFieldSolver): Samples lateral shifts,
\* proportional to the glass thickness and to the bending at the sample,
\* all zero for a zero-width bezel and for refractive index 1.
calculateDisplacementMap(glassThickness, bezelWidth, bezelHeightFn, refractiveIndex) ==
  [i \in 1..Samples |->
     IF bezelWidth = 0 \/ refractiveIndex = 10
     THEN 0
     ELSE ProfileSign(bezelHeightFn) * Weight(i) * glassThickness
            * (refractiveIndex - 10) * 20]

\* calculateDisplacementMap2 (DisplacementRasterizer): the bitmap is a pure
\* function of its arguments, held as the arguments it was rasterized from.
calculateDisplacementMap2(cw, ch, objectWidth, objectHeight, radius, bezelWidth, maxDisp, field, dpr) ==
  [kind |-> "ImageData", of |-> "displacement",
   canvasWidth |-> cw, canvasHeight |-> ch,
   width |-> objectWidth, height |-> objectHeight, radius |-> radius,
   bezelWidth |-> bezelWidth, maximumDisplacement |-> maxDisp,
   field |-> field, dpr |-> dpr]

\* calculateRefractionSpecular (SpecularRasterizer).
calculateRefractionSpecular(objectWidth, objectHeight, radius, bezelWidth, angle, dpr) ==
  [kind |-> "ImageData", of |-> "specular",
   width |-> objectWidth, height |-> objectHeight, radius |-> radius,
   bezelWidth |-> bezelWidth, angle |-> angle, dpr |-> dpr]

\* calculateMagnifyingDisplacementMap (MagnifyingFieldRasterizer).
calculateMagnifyingDisplacementMap(canvasWidth, canvasHeight) ==
  [kind |-> "ImageData", of |-> "magnifying",
   canvasWidth |-> canvasWidth, canvasHeight |-> canvasHeight]

\* throw new Error("Failed to get canvas context")
Thrown == [kind |-> "error", message |-> "Failed to get canvas context"]

\* Faulty variant: without a context the encoder returns the URL of the
\* empty canvas.
imageDataToUrlBlank(imageData) ==
  [kind |-> "url", data |-> IF context THEN imageData ELSE Undefined]

\* imageDataToUrl: the data URL of the canvas the bitmap was put on, or the
\* error thrown when the canvas gives no 2d context.
imageDataToUrl(imageData) ==
  IF context THEN [kind |-> "url", data |-> imageData] ELSE Thrown

\* ------------------------------------------------------- the derived cells
\* A useTransform(() => ...) computation yields its value and the set of
\* MotionValues it called get() on, which are the inputs it is subscribed to.

\* The MotionValue a prop contributes to a computation's inputs.
ReadOf(v) == IF v.kind = "motion" THEN {v.name} ELSE {}

Cell(inputs, value) == [inputs |-> inputs, value |-> value]

\* const map = useTransform(() => calculateDisplacementMap(...))
map(p, m) ==
  Cell(ReadOf(p.glassThickness) \cup ReadOf(p.bezelWidth) \cup ReadOf(p.refractiveIndex),
       calculateDisplacementMap(getValueOrMotion(p.glassThickness, m),
                                getValueOrMotion(p.bezelWidth, m),
                                p.bezelHeightFn,
                                getValueOrMotion(p.refractiveIndex, m)))

\* Faulty variant: the maximum of the signed samples (Math.abs dropped).
maximumDisplacementSigned(p, m) ==
  Cell({"map"}, MathMax(Range(m["map"])))

\* Math.max(...map.get().map((v) => Math.abs(v)))
maximumDisplacement(p, m) ==
  Cell({"map"}, MathMax({Abs(v) : v \in Range(m["map"])}))

displacementMap(p, m) ==
  Cell(ReadOf(Coalesce(p.canvasWidth, p.width))
         \cup ReadOf(Coalesce(p.canvasHeight, p.height))
         \cup ReadOf(p.width) \cup ReadOf(p.height) \cup ReadOf(p.radius)
         \cup ReadOf(p.bezelWidth) \cup {"maximumDisplacement", "map"},
       calculateDisplacementMap2(
         getValueOrMotion(Coalesce(p.canvasWidth, p.width), m),
         getValueOrMotion(Coalesce(p.canvasHeight, p.height), m),
         getValueOrMotion(p.width, m),
         getValueOrMotion(p.height, m),
         getValueOrMotion(p.radius, m),
         getValueOrMotion(p.bezelWidth, m),
         m["maximumDisplacement"],
         m["map"],
         p.dpr))

\* Faulty variant: the highlight opacity is handed to the rasterizer.
specularLayerWithOpacity(p, m) ==
  Cell(ReadOf(p.width) \cup ReadOf(p.height) \cup ReadOf(p.radius)
         \cup ReadOf(p.specularOpacity),
       calculateRefractionSpecular(getValueOrMotion(p.width, m),
                                   getValueOrMotion(p.height, m),
                                   getValueOrMotion(p.radius, m),
                                   50, getValueOrMotion(p.specularOpacity, m), p.dpr))

\* Faulty variant: the bezel width prop is handed to the rasterizer in place of 50.
specularLayerBezel(p, m) ==
  Cell(ReadOf(p.width) \cup ReadOf(p.height) \cup ReadOf(p.radius)
         \cup ReadOf(p.bezelWidth),
       calculateRefractionSpecular(getValueOrMotion(p.width, m),
                                   getValueOrMotion(p.height, m),
                                   getValueOrMotion(p.radius, m),
                                   getValueOrMotion(p.bezelWidth, m), Undefined, p.dpr))

specularLayer(p, m) ==
  Cell(ReadOf(p.width) \cup ReadOf(p.height) \cup ReadOf(p.radius),
       calculateRefractionSpecular(getValueOrMotion(p.width, m),
                                   getValueOrMotion(p.height, m),
                                   getValueOrMotion(p.radius, m),
                                   50, Undefined, p.dpr))

\* Faulty variant: the magnifying bitmap is rasterized whether or not
\* magnifyingScale is supplied.
magnifyingDisplacementMapUnguarded(p, m) ==
  Cell(ReadOf(Coalesce(p.canvasWidth, p.width))
         \cup ReadOf(Coalesce(p.canvasHeight, p.height)),
       calculateMagnifyingDisplacementMap(
         getValueOrMotion(Coalesce(p.canvasWidth, p.width), m),
         getValueOrMotion(Coalesce(p.canvasHeight, p.height), m)))

magnifyingDisplacementMap(p, m) ==
  IF Defined(p.magnifyingScale)
  THEN Cell(ReadOf(Coalesce(p.canvasWidth, p.width))
              \cup ReadOf(Coalesce(p.canvasHeight, p.height)),
            calculateMagnifyingDisplacementMap(
              getValueOrMotion(Coalesce(p.canvasWidth, p.width), m),
              getValueOrMotion(Coalesce(p.canvasHeight, p.height), m)))
  ELSE Cell({}, Undefined)

magnifyingDisplacementMapDataUrl(p, m) ==
  IF Truthy(p.magnifyingScale)
  THEN Cell({"magnifyingDisplacementMap"},
            imageDataToUrl(m["magnifyingDisplacementMap"]))
  ELSE Cell({}, Undefined)

displacementMapDataUrl(p, m) ==
  Cell({"displacementMap"}, imageDataToUrl(m["displacementMap"]))

specularLayerDataUrl(p, m) ==
  Cell({"specularLayer"}, imageDataToUrl(m["specularLayer"]))

\* Faulty variant: the scale ratio is read without subscribing to it.
scaleUnsubscribed(p, m) ==
  Cell({"maximumDisplacement"},
       Times(m["maximumDisplacement"],
             IF Defined(p.scaleRatio) THEN m[p.scaleRatio.name] ELSE 10))

\* Faulty variant: the ratio is added to the maximum, not multiplied.
scaleAdded(p, m) ==
  Cell({"maximumDisplacement"} \cup ReadOf(p.scaleRatio),
       m["maximumDisplacement"]
         + (IF Defined(p.scaleRatio) THEN m[p.scaleRatio.name] ELSE 10))

\* maximumDisplacement.get() * (scaleRatio?.get() ?? 1)
scale(p, m) ==
  Cell({"maximumDisplacement"} \cup ReadOf(p.scaleRatio),
       Times(m["maximumDisplacement"],
             IF Defined(p.scaleRatio) THEN m[p.scaleRatio.name] ELSE 10))

DarkMatrix == "0.9 0 0 0 -0.3 0 0.9 0 0 -0.3 0 0 0.9 0 -0.3 0 0 0 1 0"

LightMatrix == "1.03 0 0 0 0.2 0 1.03 0 0 0.2 0 0 1.03 0 0.2 0 0 0 1 0"

\* Faulty variant: the two presets are exchanged.
colorMatrixValuesExchanged(p, m) ==
  Cell(ReadOf(p.colorScheme),
       IF getValueOrMotion(p.colorScheme, m) = "dark" THEN LightMatrix ELSE DarkMatrix)

\* values of the colour-scheme feColorMatrix
colorMatrixValues(p, m) ==
  Cell(ReadOf(p.colorScheme),
       IF getValueOrMotion(p.colorScheme, m) = "dark" THEN DarkMatrix ELSE LightMatrix)

\* scale.get() * 0.8
scaleRed(p, m) == Cell({"scale"}, Times(m["scale"], 8))

\* Faulty variant: the green channel copies the red channel's multiplier.
scaleGreenAsRed(p, m) == Cell({"scale"}, Times(m["scale"], 8))

\* scale.get() * 0.9
scaleGreen(p, m) == Cell({"scale"}, Times(m["scale"], 9))

\* Number.prototype.toString
NumberToString(n) == [kind |-> "string", digits |-> n]

\* specularSaturation = 4 in the destructuring of the props.
specularSaturation(p) == Coalesce(p.specularSaturation, Num(40))

\* Faulty variant: the default of specularSaturation is 1.
saturateValuesDefaultOne(p, m) ==
  Cell(ReadOf(p.specularSaturation),
       NumberToString(getValueOrMotion(Coalesce(p.specularSaturation, Num(10)), m)))

\* getValueOrMotion(specularSaturation).toString()
saturateValues(p, m) ==
  Cell(ReadOf(specularSaturation(p)),
       NumberToString(getValueOrMotion(specularSaturation(p), m)))

\* Faulty variant: the fade is bound to the saturation control.
specularSlopeFromSaturation(p, m) ==
  Cell(ReadOf(specularSaturation(p)), getValueOrMotion(specularSaturation(p), m))

\* slope of the specular feFuncA
specularSlope(p, m) ==
  Cell(ReadOf(p.specularOpacity), getValueOrMotion(p.specularOpacity, m))

\* The useTransform hooks in the order Filter calls them.
CellOrder ==
  << "map", "maximumDisplacement", "displacementMap", "specularLayer",
     "magnifyingDisplacementMap", "magnifyingDisplacementMapDataUrl",
     "displacementMapDataUrl", "specularLayerDataUrl", "scale",
     "colorMatrixValues", "scaleRed", "scaleGreen", "saturateValues",
     "specularSlope" >>

CellNames == Range(CellOrder)

\* The hooks a render of Filter calls: the colour-matrix one only inside
\* {colorScheme && ...}.
Cells(p) == {c \in CellNames : c = "colorMatrixValues" => Truthy(p.colorScheme)}

Compute(c, p, m) ==
  CASE c = "map" -> map(p, m)
    [] c = "maximumDisplacement" -> maximumDisplacement(p, m)
    [] c = "displacementMap" -> displacementMap(p, m)
    [] c = "specularLayer" -> specularLayer(p, m)
    [] c = "magnifyingDisplacementMap" -> magnifyingDisplacementMap(p, m)
    [] c = "magnifyingDisplacementMapDataUrl" -> magnifyingDisplacementMapDataUrl(p, m)
    [] c = "displacementMapDataUrl" -> displacementMapDataUrl(p, m)
    [] c = "specularLayerDataUrl" -> specularLayerDataUrl(p, m)
    [] c = "scale" -> scale(p, m)
    [] c = "colorMatrixValues" -> colorMatrixValues(p, m)
    [] c = "scaleRed" -> scaleRed(p, m)
    [] c = "scaleGreen" -> scaleGreen(p, m)
    [] c = "saturateValues" -> saturateValues(p, m)
    [] c = "specularSlope" -> specularSlope(p, m)

\* ReactiveRecomputeScheduler: one pass over the cells in dependency order
\* from cell i on; a cell is recomputed when one of its inputs is dirty,
\* and is dirty from then on.
RECURSIVE Recompute(_, _, _, _, _)
Recompute(i, p, m, dirty, done) ==
  IF i > Len(CellOrder)
  THEN [mv |-> m, recomputed |-> done]
  ELSE LET c == CellOrder[i] IN
       IF c \in Cells(p) /\ Compute(c, p, m).inputs \cap dirty # {}
       THEN Recompute(i + 1, p, [m EXCEPT ![c] = Compute(c, p, m).value],
                      dirty \cup {c}, done \cup {c})
       ELSE Recompute(i + 1, p, m, dirty, done)

\* The first render: every hook computes its value when it is called.
RECURSIVE Construct(_, _, _)
Construct(i, p, m) ==
  IF i > Len(CellOrder)
  THEN m
  ELSE LET c == CellOrder[i] IN
       IF c \in Cells(p)
       THEN Construct(i + 1, p, [m EXCEPT ![c] = Compute(c, p, m).value])
       ELSE Construct(i + 1, p, m)

\* The hooks that call imageDataToUrl.
EncodingCells ==
  {"magnifyingDisplacementMapDataUrl", "displacementMapDataUrl", "specularLayerDataUrl"}

\* An exception left one of the given hooks: none of them catches.
Threw(cells, m) == \E c \in cells \cap EncodingCells : m[c] = Thrown

\* The solver refuses the parameters the map hook hands it, unchanged, when
\* the hook runs: at the first render (all is dirty) or after a write to
\* one of its inputs.
Rejected(p, m, dirty) ==
  /\ map(p, m).inputs \cap dirty # {}
  /\ ConfigurationError(getValueOrMotion(p.glassThickness, m),
                        getValueOrMotion(p.bezelWidth, m))

\* ------------------------------------------------------- the filter graph

NoRef == "none"

\* A filter primitive: its element, its in and in2 references, its result
\* name and its other attributes.
Node(op, in, in2, result, a) ==
  [op |-> op, in |-> in, in2 |-> in2, result |-> result, a |-> a]

\* The hook result magnifyingDisplacementMapDataUrl, as the JSX tests it.
MagnifyingUrlHook == Motion("magnifyingDisplacementMapDataUrl")

ImageSize(p, m) ==
  [width |-> getValueOrMotion(Coalesce(p.canvasWidth, p.width), m),
   height |-> getValueOrMotion(Coalesce(p.canvasHeight, p.height), m)]

\* Faulty variant: the magnifying displacement drops the sign of the scale.
MagnifyingStageUnsigned(p, m) ==
  IF Truthy(p.magnifyingScale)
  THEN << Node("feImage", NoRef, NoRef, "magnifying_displacement_map",
               [href |-> m["magnifyingDisplacementMapDataUrl"], x |-> 0, y |-> 0,
                size |-> ImageSize(p, m)]),
          Node("feDisplacementMap", "SourceGraphic", "magnifying_displacement_map",
               "magnified_source",
               [scale |-> Abs(getValueOrMotion(p.magnifyingScale, m)),
                xChannelSelector |-> "R", yChannelSelector |-> "G"]) >>
  ELSE << >>

\* {magnifyingScale && (<feImage/> <feDisplacementMap/>)}
MagnifyingStage(p, m) ==
  IF Truthy(p.magnifyingScale)
  THEN << Node("feImage", NoRef, NoRef, "magnifying_displacement_map",
               [href |-> m["magnifyingDisplacementMapDataUrl"], x |-> 0, y |-> 0,
                size |-> ImageSize(p, m)]),
          Node("feDisplacementMap", "SourceGraphic", "magnifying_displacement_map",
               "magnified_source",
               [scale |-> getValueOrMotion(p.magnifyingScale, m),
                xChannelSelector |-> "R", yChannelSelector |-> "G"]) >>
  ELSE << >>

\* {colorScheme && <feColorMatrix type="matrix"/>}
ColorSchemeStage(p, m) ==
  IF Truthy(p.colorScheme)
  THEN << Node("feColorMatrix",
               IF Truthy(MagnifyingUrlHook) THEN "magnified_source" ELSE "SourceGraphic",
               NoRef, "brightened_source",
               [type |-> "matrix", values |-> m["colorMatrixValues"]]) >>
  ELSE << >>

\* The first feGaussianBlur.
SourceBlur(p, m) ==
  << Node("feGaussianBlur",
          IF Truthy(p.colorScheme)
          THEN "brightened_source"
          ELSE IF Truthy(MagnifyingUrlHook) THEN "magnified_source" ELSE "SourceGraphic",
          NoRef, "blurred_source",
          [stdDeviation |-> getValueOrMotion(p.blur, m)]) >>

DisplacementImage(p, m) ==
  << Node("feImage", NoRef, NoRef, "displacement_map",
          [href |-> m["displacementMapDataUrl"], x |-> 0, y |-> 0,
           size |-> ImageSize(p, m)]) >>

\* <feFuncX type="linear" slope intercept="0"/>
Linear(slope) == [type |-> "linear", slope |-> slope, intercept |-> 0]

\* Faulty variant: the third copy keeps the green channel again.
ChannelSplitGreenTwice(p, m) ==
  << Node("feComponentTransfer", "blurred_source", NoRef, "red_channel",
          [funcR |-> Linear(10), funcG |-> Linear(0), funcB |-> Linear(0)]),
     Node("feComponentTransfer", "blurred_source", NoRef, "green_channel",
          [funcR |-> Linear(0), funcG |-> Linear(10), funcB |-> Linear(0)]),
     Node("feComponentTransfer", "blurred_source", NoRef, "blue_channel",
          [funcR |-> Linear(0), funcG |-> Linear(10), funcB |-> Linear(0)]) >>

\* The three feComponentTransfer copies of blurred_source.
ChannelSplit(p, m) ==
  << Node("feComponentTransfer", "blurred_source", NoRef, "red_channel",
          [funcR |-> Linear(10), funcG |-> Linear(0), funcB |-> Linear(0)]),
     Node("feComponentTransfer", "blurred_source", NoRef, "green_channel",
          [funcR |-> Linear(0), funcG |-> Linear(10), funcB |-> Linear(0)]),
     Node("feComponentTransfer", "blurred_source", NoRef, "blue_channel",
          [funcR |-> Linear(0), funcG |-> Linear(0), funcB |-> Linear(10)]) >>

ChannelDisplacement(p, m) ==
  << Node("feDisplacementMap", "red_channel", "displacement_map", "displaced_red",
          [scale |-> m["scaleRed"], xChannelSelector |-> "R", yChannelSelector |-> "G"]),
     Node("feDisplacementMap", "green_channel", "displacement_map", "displaced_green",
          [scale |-> m["scaleGreen"], xChannelSelector |-> "R", yChannelSelector |-> "G"]),
     Node("feDisplacementMap", "blue_channel", "displacement_map", "displaced_blue",
          [scale |-> m["scale"], xChannelSelector |-> "R", yChannelSelector |-> "G"]) >>

\* Faulty variant: the second blend takes the blue copy before displacement.
RecombineUndisplacedBlue(p, m) ==
  << Node("feBlend", "displaced_red", "displaced_green", "displaced_rg",
          [mode |-> "screen"]),
     Node("feBlend", "displaced_rg", "blue_channel", "displaced_combined",
          [mode |-> "screen"]) >>

\* Faulty variant: both screen blends declare the result displaced_rg, and
\* the overlay reads the first of them.
RecombineSameName(p, m) ==
  << Node("feBlend", "displaced_red", "displaced_green", "displaced_rg",
          [mode |-> "screen"]),
     Node("feBlend", "displaced_rg", "displaced_blue", "displaced_rg",
          [mode |-> "screen"]) >>

\* The two screen blends that put the displaced channels back together.
Recombine(p, m) ==
  << Node("feBlend", "displaced_red", "displaced_green", "displaced_rg",
          [mode |-> "screen"]),
     Node("feBlend", "displaced_rg", "displaced_blue", "displaced_combined",
          [mode |-> "screen"]) >>

\* Faulty variant: the secondary blur takes the caller's blur radius.
SecondaryOverlayCallerBlur(p, m) ==
  << Node("feGaussianBlur", "displaced_combined", NoRef, "displaced_blurred",
          [stdDeviation |-> getValueOrMotion(p.blur, m)]),
     Node("feComponentTransfer", "displaced_blurred", NoRef, "displaced_blurred_faded",
          [funcA |-> [type |-> "linear", slope |-> 7]]),
     Node("feBlend", "displaced_combined", "displaced_blurred_faded", "displaced",
          [mode |-> "normal"]) >>

\* The secondary blur, its alpha fade and the overlay blend.
SecondaryOverlay(p, m) ==
  << Node("feGaussianBlur", "displaced_combined", NoRef, "displaced_blurred",
          [stdDeviation |-> 100]),
     Node("feComponentTransfer", "displaced_blurred", NoRef, "displaced_blurred_faded",
          [funcA |-> [type |-> "linear", slope |-> 7]]),
     Node("feBlend", "displaced_combined", "displaced_blurred_faded", "displaced",
          [mode |-> "normal"]) >>

Saturation(p, m) ==
  << Node("feColorMatrix", "displaced", NoRef, "displaced_saturated",
          [type |-> "saturate", values |-> m["saturateValues"]]) >>

\* Faulty variant: the last blend takes the specular bitmap before its fade.
SpecularStageUnfaded(p, m) ==
  << Node("feImage", NoRef, NoRef, "specular_layer",
          [href |-> m["specularLayerDataUrl"], x |-> 0, y |-> 0,
           size |-> ImageSize(p, m)]),
     Node("feComposite", "displaced_saturated", "specular_layer", "specular_saturated",
          [operator |-> "in"]),
     Node("feComponentTransfer", "specular_layer", NoRef, "specular_faded",
          [funcA |-> [type |-> "linear", slope |-> m["specularSlope"]]]),
     Node("feBlend", "specular_saturated", "displaced", "withSaturation",
          [mode |-> "normal"]),
     Node("feBlend", "specular_layer", "withSaturation", NoRef,
          [mode |-> "normal"]) >>

\* Faulty variant: the composite keeps the specular bitmap and masks it
\* with the saturated composite.
SpecularStageMaskSwapped(p, m) ==
  << Node("feImage", NoRef, NoRef, "specular_layer",
          [href |-> m["specularLayerDataUrl"], x |-> 0, y |-> 0,
           size |-> ImageSize(p, m)]),
     Node("feComposite", "specular_layer", "displaced_saturated", "specular_saturated",
          [operator |-> "in"]),
     Node("feComponentTransfer", "specular_layer", NoRef, "specular_faded",
          [funcA |-> [type |-> "linear", slope |-> m["specularSlope"]]]),
     Node("feBlend", "specular_saturated", "displaced", "withSaturation",
          [mode |-> "normal"]),
     Node("feBlend", "specular_faded", "withSaturation", NoRef,
          [mode |-> "normal"]) >>

\* The specular bitmap, its mask, its fade and the last two blends.
SpecularStage(p, m) ==
  << Node("feImage", NoRef, NoRef, "specular_layer",
          [href |-> m["specularLayerDataUrl"], x |-> 0, y |-> 0,
           size |-> ImageSize(p, m)]),
     Node("feComposite", "displaced_saturated", "specular_layer", "specular_saturated",
          [operator |-> "in"]),
     Node("feComponentTransfer", "specular_layer", NoRef, "specular_faded",
          [funcA |-> [type |-> "linear", slope |-> m["specularSlope"]]]),
     Node("feBlend", "specular_saturated", "displaced", "withSaturation",
          [mode |-> "normal"]),
     Node("feBlend", "specular_faded", "withSaturation", NoRef,
          [mode |-> "normal"]) >>

\* The children of <filter id={id}>, in document order.
Filter(p, m) ==
  MagnifyingStage(p, m) \o ColorSchemeStage(p, m) \o SourceBlur(p, m)
    \o DisplacementImage(p, m) \o ChannelSplit(p, m) \o ChannelDisplacement(p, m)
    \o Recombine(p, m) \o SecondaryOverlay(p, m) \o Saturation(p, m)
    \o SpecularStage(p, m)

\* ------------------------------------------------------------ the callers

\* The MotionValues a caller can hand to Filter.
CallerNames ==
  {"glassThickness", "bezelWidth", "refractiveIndex", "width", "height", "radius",
   "blur", "specularOpacity", "specularSaturation", "scaleRatio", "magnifyingScale",
   "colorScheme"}

\* The values a caller writes to each of them.
Values(name) ==
  CASE name = "glassThickness" -> {47, 80}
    [] name = "bezelWidth" -> {0, 19}
    [] name = "refractiveIndex" -> {10, 15}
    [] name = "width" -> {90, 146}
    [] name = "height" -> {60, 92}
    [] name = "radius" -> {30, 46}
    [] name = "blur" -> {0, 2}
    [] name = "specularOpacity" -> {0, 5}
    [] name = "specularSaturation" -> {60, 70}
    [] name = "scaleRatio" -> {5, 10}
    [] name = "magnifyingScale" -> {-120, 120}
    [] name = "colorScheme" -> {"light", "dark"}

\* The callers' values when Filter is first rendered.
InitialValue(name) ==
  CASE name = "glassThickness" -> 47
    [] name = "bezelWidth" -> 19
    [] name = "refractiveIndex" -> 15
    [] name = "width" -> 146
    [] name = "height" -> 92
    [] name = "radius" -> 46
    [] name = "blur" -> 2
    [] name = "specularOpacity" -> 5
    [] name = "specularSaturation" -> 60
    [] name = "scaleRatio" -> 5
    [] name = "magnifyingScale" -> 120
    [] name = "colorScheme" -> "light"

\* The props of one Filter element: the destructuring of FilterProps with
\* its defaults (specularSaturation = 4, bezelHeightFn = CONVEX.fn).
PropsChoices ==
  {[glassThickness |-> Motion("glassThickness"),
    bezelWidth |-> Motion("bezelWidth"),
    refractiveIndex |-> Motion("refractiveIndex"),
    width |-> Motion("width"),
    height |-> Motion("height"),
    radius |-> Motion("radius"),
    blur |-> Motion("blur"),
    specularOpacity |-> Motion("specularOpacity"),
    specularSaturation |-> o.specularSaturation,
    scaleRatio |-> sr,
    magnifyingScale |-> mag,
    colorScheme |-> cs,
    canvasWidth |-> o.canvas,
    canvasHeight |-> o.canvas,
    dpr |-> o.dpr,
    bezelHeightFn |-> o.bezelHeightFn] :
     sr \in {Absent, Motion("scaleRatio")},
     mag \in {Absent, Num(0), Num(120), Motion("magnifyingScale")},
     cs \in {Absent, Motion("colorScheme")},
     o \in {[specularSaturation |-> Motion("specularSaturation"), canvas |-> Absent,
             dpr |-> Absent, bezelHeightFn |-> "CONVEX"],
            [specularSaturation |-> Absent, canvas |-> Num(200),
             dpr |-> Num(2), bezelHeightFn |-> "CONCAVE"]}}

\* The MotionValues the caller handed over.
Supplied(p) ==
  {n \in CallerNames : p[n].kind = "motion"}

\* ---------------------------------------------------- the Switch's state

\* sliderWidth - sliderHeight - (thumbWidth - thumbHeight) * THUMB_REST_SCALE
\* = 57.9 px, in tenths of a pixel.
TRAVEL == 579

\* Where the pointer is when an event is delivered.
PointerXs == {100, 104, 105, 106, 140}

\* The Switch as constructed: useMotionValue(1), (0), (false), (0), ...;
\* the spring starts at its target.
SwitchInitial ==
  /\ checked = 1000
  /\ pointerDown = 0
  /\ forceActive = FALSE
  /\ xDragRatio = 0
  /\ initialPointerX = 0
  /\ startDragRatio = 0
  /\ previousPointerX = 0
  /\ velocityX = 0
  /\ xRatio = 1000
  /\ pointerX = 100
  /\ event = "none"
  /\ phase = "idle"

\* ---------------------------------------------------- the Slider's state

\* -thumbWidthRest / 3 and maxDragDistance + thumbWidthRest / 3
constraintsLeft == -18000

constraintsRight == 328000

totalSlideRange == constraintsRight - constraintsLeft

\* totalSlideRange * SNAP_THRESHOLD
snapDistance == (totalSlideRange * 5) \div 100

\* The denominator of mappedProgress: 0.9 of the slide range.
MappedUnit == (totalSlideRange * 9) \div 10

\* The denominator of easedProgress, whose slopes are in thousandths.
ValueUnit == MappedUnit * 1000

\* The value 1 (of 100).
ValuePercent == ValueUnit \div 100

\* Where the thumb is looked at: beyond, at and inside the constraints, the
\* ends of the 5% bands, and next to the two breakpoints of the easing.
Xs ==
  {-30000, -18000, -10000, -700, -699, 14869, 14870, 155000,
   295129, 295130, 310699, 310700, 320000, 328000, 340000}

\* An animation that is not running.
Idle(to) == [running |-> FALSE, to |-> to]

Running(to) == [running |-> TRUE, to |-> to]

\* The Slider as constructed: value is useMotionValue(50), x is the middle
\* of the slide range.
SliderInitial ==
  /\ sliderX = constraintsLeft + (50 * totalSlideRange) \div 100
  /\ sliderValue = 50 * ValuePercent
  /\ overshoot = 0
  /\ sliderPointerDown = 0
  /\ gesture = "idle"
  /\ momentum = Idle(0)
  /\ snap = [state |-> "none", to |-> 0]
  /\ overshootAnimation = FALSE

ControlsAtRest == SwitchInitial /\ SliderInitial

\* ------------------------------------------------------------- behaviour

\* The caller's MotionValues as it created them; no hook has run yet.
BeforeRender ==
  [n \in CallerNames \cup CellNames |->
     IF n \in CallerNames THEN InitialValue(n) ELSE Undefined]

\* The first render of Filter: the hooks run, then the JSX is built.  An
\* exception in a hook leaves the function before any JSX exists.
Mount(choices, contexts) ==
  /\ props \in choices
  /\ context \in contexts
  /\ \E m \in {Construct(1, props, BeforeRender)} :
       IF Rejected(props, BeforeRender, CallerNames) \/ Threw(Cells(props), m)
       THEN mv = BeforeRender /\ graph = << >> /\ pass = "aborted"
       ELSE mv = m /\ graph = Filter(props, m) /\ pass = "rendered"
  /\ written = {}
  /\ flushed = TRUE
  /\ recomputed = {}
  /\ writes = 0

Init == Mount(PropsChoices, {TRUE}) /\ ControlsAtRest

\* A caller sets one of its MotionValues: the computations that read it are
\* scheduled for the frame.
SetValue ==
  /\ writes < MaxWrites
  /\ \E n \in Supplied(props) : \E v \in Values(n) \ {mv[n]} :
       /\ mv' = [mv EXCEPT ![n] = v]
       /\ written' = IF flushed THEN {n} ELSE written \cup {n}
  /\ flushed' = FALSE
  /\ recomputed' = {}
  /\ writes' = writes + 1
  /\ UNCHANGED <<props, graph, context, pass, controlVars>>

\* The frame after one or more writes: the scheduled computations run, then
\* the attributes bound to MotionValues are rendered.
\* An exception in a scheduled computation aborts the pass: nothing of it
\* is kept and nothing is rendered.
Frame ==
  /\ ~flushed
  /\ graph # << >>
  /\ \E r \in {Recompute(1, props, mv, written, {})} :
       IF Rejected(props, mv, written) \/ Threw(r.recomputed, r.mv)
       THEN /\ pass' = "aborted"
            /\ UNCHANGED <<mv, recomputed, graph, flushed>>
       ELSE /\ mv' = r.mv
            /\ recomputed' = r.recomputed
            /\ graph' = Filter(props, r.mv)
            /\ flushed' = TRUE
            /\ pass' = "rendered"
  /\ UNCHANGED <<props, written, writes, context, controlVars>>

Next == SetValue \/ Frame

Spec == Init /\ [][Next]_vars

\* The canvas backend stops or starts giving out 2d contexts.
ContextChange ==
  /\ context' = ~context
  /\ UNCHANGED <<props, mv, written, flushed, recomputed, graph, writes, pass, controlVars>>

\* The configurations followed when the context can be missing.
CanvasChoices ==
  {p \in PropsChoices : p.scaleRatio = Absent /\ p.colorScheme = Absent
                          /\ p.magnifyingScale \in {Absent, Motion("magnifyingScale")}}

InitCanvas == Mount(CanvasChoices, BOOLEAN) /\ ControlsAtRest

NextCanvas == SetValue \/ Frame \/ ContextChange

SpecCanvas == InitCanvas /\ [][NextCanvas]_vars

\* Geometry no glass has: a negative thickness, bezel width or radius, a
\* shape without area.
InvalidValues(name) ==
  CASE name = "glassThickness" -> {-47}
    [] name = "bezelWidth" -> {-19}
    [] name = "radius" -> {-46}
    [] name = "width" -> {0}
    [] name = "height" -> {0}
    [] OTHER -> {}

\* A caller sets one of its geometry MotionValues to such a value.
SetGeometry ==
  /\ writes < MaxWrites
  /\ \E n \in Supplied(props) : \E v \in InvalidValues(n) \ {mv[n]} :
       /\ mv' = [mv EXCEPT ![n] = v]
       /\ written' = IF flushed THEN {n} ELSE written \cup {n}
  /\ flushed' = FALSE
  /\ recomputed' = {}
  /\ writes' = writes + 1
  /\ UNCHANGED <<props, graph, context, pass, controlVars>>

InitGeometry == Mount(CanvasChoices, {TRUE}) /\ ControlsAtRest

NextGeometry == SetValue \/ SetGeometry \/ Frame

SpecGeometry == InitGeometry /\ [][NextGeometry]_vars

\* ------------------------------------------------------------- the Switch

\* The props of the <Filter> the Switch renders.
SwitchFilterProps ==
  [glassThickness |-> Num(47), bezelWidth |-> Num(19), refractiveIndex |-> Num(15),
   width |-> Num(146), height |-> Num(92), radius |-> Num(46),
   blur |-> Motion("blur"), specularOpacity |-> Motion("specularOpacity"),
   specularSaturation |-> Motion("specularSaturation"),
   scaleRatio |-> Motion("scaleRatio"), magnifyingScale |-> Motion("magnifyingScale"),
   colorScheme |-> Absent, canvasWidth |-> Absent, canvasHeight |-> Absent,
   dpr |-> Absent, bezelHeightFn |-> "CONVEX"]

\* Math.min(hi, Math.max(lo, v))
Clamp(lo, hi, v) == IF v < lo THEN lo ELSE IF v > hi THEN hi ELSE v

\* targetX: pd > 0.5 ? drag : chk
targetX == IF 2 * pointerDown > 1 THEN xDragRatio ELSE checked

\* Faulty variant: forceActive is not looked at.
isLiquidUnforced ==
  IF 2 * pointerDown > 1
  THEN 1
  ELSE IF Abs(xRatio - checked) > 80 THEN 1 ELSE 0

\* isLiquid
isLiquid ==
  IF forceActive \/ 2 * pointerDown > 1
  THEN 1
  ELSE IF Abs(xRatio - checked) > 80 THEN 1 ELSE 0

\* The positions at which the spring's value is looked at.
SpringGrid == {0, 40, 500, 960, 1000}

\* xRatio = useSpring(targetX, {damping: 40, stiffness: 500}): a step of the
\* spring takes its value closer to the target.
SpringStep ==
  /\ \E x \in SpringGrid :
       /\ Abs(x - targetX) < Abs(xRatio - targetX)
       /\ xRatio' = x
  /\ UNCHANGED <<checked, pointerDown, forceActive, xDragRatio, initialPointerX,
                 startDragRatio, previousPointerX, velocityX, pointerX, event, phase>>
  /\ UNCHANGED <<filterVars, sliderVars>>

\* Faulty variant: the drag starts from where the last drag ended.
handlePointerDownStale ==
  /\ phase = "idle"
  /\ \E clientX \in PointerXs :
       /\ pointerDown' = 1
       /\ initialPointerX' = clientX
       /\ previousPointerX' = clientX
       /\ pointerX' = clientX
  /\ event' = "pointerdown"
  /\ phase' = "pressed"
  /\ UNCHANGED <<checked, forceActive, velocityX, xRatio, startDragRatio, xDragRatio>>
  /\ UNCHANGED <<filterVars, sliderVars>>

\* onPointerDown of the thumb.
handlePointerDown ==
  /\ phase = "idle"
  /\ \E clientX \in PointerXs :
       /\ pointerDown' = 1
       /\ initialPointerX' = clientX
       /\ previousPointerX' = clientX
       /\ pointerX' = clientX
  /\ startDragRatio' = xRatio
  /\ xDragRatio' = xRatio
  /\ event' = "pointerdown"
  /\ phase' = "pressed"
  /\ UNCHANGED <<checked, forceActive, velocityX, xRatio>>
  /\ UNCHANGED <<filterVars, sliderVars>>

\* Faulty variant: the handler does not return when the pointer is up.
handleGlobalUpdateUnguarded ==
  /\ phase \in {"idle", "pressed"}
  /\ \E clientX \in PointerXs :
       /\ pointerX' = clientX
       /\ xDragRatio' = Clamp(-100, 1100,
                              startDragRatio
                                + ((clientX - initialPointerX) * 10000) \div TRAVEL)
       /\ velocityX' = (clientX - previousPointerX) * 12
       /\ previousPointerX' = clientX
  /\ event' = "move"
  /\ UNCHANGED <<checked, pointerDown, forceActive, initialPointerX, startDragRatio,
                 xRatio, phase>>
  /\ UNCHANGED <<filterVars, sliderVars>>

\* mousemove / touchmove on window.
handleGlobalUpdate ==
  /\ phase \in {"idle", "pressed"}
  /\ \E clientX \in PointerXs :
       /\ pointerX' = clientX
       /\ IF 2 * pointerDown < 1
          THEN UNCHANGED <<xDragRatio, velocityX, previousPointerX>>
          ELSE /\ xDragRatio' = Clamp(-100, 1100,
                                      startDragRatio
                                        + ((clientX - initialPointerX) * 10000) \div TRAVEL)
               /\ velocityX' = (clientX - previousPointerX) * 12
               /\ previousPointerX' = clientX
  /\ event' = "move"
  /\ UNCHANGED <<checked, pointerDown, forceActive, initialPointerX, startDragRatio,
                 xRatio, phase>>
  /\ UNCHANGED <<filterVars, sliderVars>>

\* mouseup / touchend on window: the release of a press, the mouseup a
\* browser delivers after the touchend of the same release, or the release
\* of a press made elsewhere.
handleGlobalUp ==
  /\ phase = "released" => event = "touchend"
  /\ \E clientX \in IF phase = "released" THEN {pointerX} ELSE PointerXs :
       /\ pointerX' = clientX
       /\ IF 2 * pointerDown < 1
          THEN UNCHANGED <<pointerDown, velocityX, checked>>
          ELSE /\ pointerDown' = 0
               /\ velocityX' = 0
               /\ checked' = IF Abs(clientX - initialPointerX) > 5
                             THEN (IF xDragRatio > 500 THEN 1000 ELSE 0)
                             ELSE checked
  /\ event' \in IF phase = "released" THEN {"mouseup after touchend"}
                                       ELSE {"touchend", "mouseup"}
  /\ phase' = IF phase = "pressed" THEN "released" ELSE phase
  /\ UNCHANGED <<forceActive, xDragRatio, initialPointerX, startDragRatio,
                 previousPointerX, xRatio>>
  /\ UNCHANGED <<filterVars, sliderVars>>

\* onClick of the track: the click that follows a release over the track,
\* or a click on the track beside the thumb.
onClick ==
  /\ phase \in {"released", "idle"}
  /\ \E clientX \in IF phase = "released" THEN {pointerX} ELSE PointerXs :
       /\ pointerX' = clientX
       /\ checked' = IF Abs(clientX - initialPointerX) < 5
                     THEN (IF checked < 500 THEN 1000 ELSE 0)
                     ELSE checked
  /\ event' = "click"
  /\ phase' = "idle"
  /\ UNCHANGED <<pointerDown, forceActive, xDragRatio, initialPointerX, startDragRatio,
                 previousPointerX, velocityX, xRatio>>
  /\ UNCHANGED <<filterVars, sliderVars>>

\* The release was outside the track: no click reaches it.
ReleasedOutside ==
  /\ phase = "released"
  /\ event' = "none"
  /\ phase' = "idle"
  /\ UNCHANGED <<checked, pointerDown, forceActive, xDragRatio, initialPointerX,
                 startDragRatio, previousPointerX, velocityX, xRatio, pointerX>>
  /\ UNCHANGED <<filterVars, sliderVars>>

\* onChange of the checkbox: forceActive.set(e.currentTarget.checked)
onChange ==
  /\ forceActive' = ~forceActive
  /\ event' = "change"
  /\ UNCHANGED <<checked, pointerDown, xDragRatio, initialPointerX, startDragRatio,
                 previousPointerX, velocityX, xRatio, pointerX, phase>>
  /\ UNCHANGED <<filterVars, sliderVars>>

InitSwitch == Mount({SwitchFilterProps}, {TRUE}) /\ ControlsAtRest

NextSwitch ==
  \/ handlePointerDown
  \/ handleGlobalUpdate
  \/ handleGlobalUp
  \/ onClick
  \/ ReleasedOutside
  \/ onChange
  \/ SpringStep

SpecSwitch == InitSwitch /\ [][NextSwitch]_vars

\* ------------------------------------------------------------- the Slider

\* The props of the <Filter> the Slider renders (refractiveIndex 1.45 to the
\* nearest tenth; magnifyingScale is undefined).
SliderFilterProps ==
  [glassThickness |-> Num(80), bezelWidth |-> Num(16), refractiveIndex |-> Num(15),
   width |-> Num(90), height |-> Num(60), radius |-> Num(30),
   blur |-> Motion("blur"), specularOpacity |-> Motion("specularOpacity"),
   specularSaturation |-> Motion("specularSaturation"),
   scaleRatio |-> Motion("scaleRatio"), magnifyingScale |-> Absent,
   colorScheme |-> Absent, canvasWidth |-> Absent, canvasHeight |-> Absent,
   dpr |-> Absent, bezelHeightFn |-> "CONVEX"]

\* Math.max(constraintsLeft, Math.min(constraintsRight, latestX))
clampedX(latestX) == Clamp(constraintsLeft, constraintsRight, latestX)

\* (clampedX - constraintsLeft) / totalSlideRange, as its numerator.
linearProgress(latestX) == clampedX(latestX) - constraintsLeft

\* Faulty variant: the 5% bands at the two ends are not cut off.
mappedProgressUncut(lp) == lp - snapDistance

\* mappedProgress over MappedUnit: 0 below 0.05, 1 above 0.95, and
\* (linearProgress - 0.05) / 0.9 between them.
mappedProgress(lp) ==
  IF lp * 100 < 5 * totalSlideRange
  THEN 0
  ELSE IF lp * 100 > 95 * totalSlideRange
       THEN MappedUnit
       ELSE lp - (5 * totalSlideRange) \div 100

\* easedProgress over ValueUnit: the three segments of slopes 3, 0.777, 3.
easedProgress(mp) ==
  IF mp * 100 < 5 * MappedUnit
  THEN mp * 3000
  ELSE IF mp * 100 < 95 * MappedUnit
       THEN 15 * ValuePercent + (mp - (5 * MappedUnit) \div 100) * 777
       ELSE 85 * ValuePercent + (mp - (95 * MappedUnit) \div 100) * 3000

\* currentValue = easedProgress * 100, where 100 is ValueUnit.
currentValue(latestX) == easedProgress(mappedProgress(linearProgress(latestX)))

\* over: how far latestX is beyond the constraints.
over(latestX) ==
  IF latestX < constraintsLeft
  THEN latestX - constraintsLeft
  ELSE IF latestX > constraintsRight
       THEN latestX - constraintsRight
       ELSE 0

\* Faulty variant: overshoot is written whether the pointer is down or not.
overshootAlways(latestX) == over(latestX)

\* What the x change handler leaves in overshoot.
overshootOnChange(latestX) ==
  IF 2 * sliderPointerDown > 1 THEN over(latestX) ELSE overshoot

\* x.set(latest), and the "change" handler when the value is a new one.
SetX(latest) ==
  /\ sliderX' = latest
  /\ IF latest # sliderX
     THEN /\ sliderValue' = currentValue(latest)
          /\ overshoot' = overshootOnChange(latest)
     ELSE UNCHANGED <<sliderValue, overshoot>>

\* onMouseDown of the thumb.
onMouseDown ==
  /\ gesture = "idle"
  /\ snap.state # "running"
  /\ sliderPointerDown' = 1
  /\ gesture' = "pressed"
  /\ UNCHANGED <<sliderX, sliderValue, overshoot, momentum, snap, overshootAnimation>>
  /\ UNCHANGED <<filterVars, switchVars>>

\* onMouseUp of the thumb.
onMouseUp ==
  /\ gesture \in {"pressed", "releasing"}
  /\ sliderPointerDown' = 0
  /\ UNCHANGED <<sliderX, sliderValue, overshoot, gesture, momentum, snap,
                 overshootAnimation>>
  /\ UNCHANGED <<filterVars, switchVars>>

\* onDragStart: the library has stopped the momentum of the last drag.
onDragStart ==
  /\ gesture \in {"idle", "pressed"}
  /\ snap.state # "running"
  /\ sliderPointerDown' = 1
  /\ gesture' = "dragging"
  /\ momentum' = Idle(momentum.to)
  /\ snap' = [state |-> "none", to |-> 0]
  /\ UNCHANGED <<sliderX, sliderValue, overshoot, overshootAnimation>>
  /\ UNCHANGED <<filterVars, switchVars>>

\* The library moves x with the pointer (drag="x", dragElastic 0.1).
Drag ==
  /\ gesture = "dragging"
  /\ \E latest \in Xs \ {sliderX} : SetX(latest)
  /\ UNCHANGED <<sliderPointerDown, gesture, momentum, snap, overshootAnimation>>
  /\ UNCHANGED <<filterVars, switchVars>>

\* pointerup / mouseup / touchend on window.
onPointerUp ==
  /\ sliderPointerDown' = 0
  /\ overshootAnimation' = TRUE
  /\ gesture' = CASE gesture = "pressed" -> "idle"
                  [] gesture = "dragging" -> "releasing"
                  [] OTHER -> gesture
  /\ UNCHANGED <<sliderX, sliderValue, overshoot, momentum, snap>>
  /\ UNCHANGED <<filterVars, switchVars>>

\* Where the momentum of a release with some velocity (dragMomentum,
\* within dragConstraints) comes to rest: at the constraint the thumb is
\* beyond, or else at a constraint or between them.
MomentumRests(currentX) ==
  IF currentX # clampedX(currentX)
  THEN {clampedX(currentX)}
  ELSE {constraintsLeft, 155000, constraintsRight} \ {currentX}

\* onDragEnd; the library has started the release momentum on x, unless
\* the thumb was released at a standstill inside the constraints.
onDragEnd ==
  /\ gesture = "releasing"
  /\ gesture' = "idle"
  /\ sliderPointerDown' = 0
  /\ \/ /\ sliderX = clampedX(sliderX)
        /\ momentum' = Idle(sliderX)
     \/ \E to \in MomentumRests(sliderX) : momentum' = Running(to)
  /\ snap' = IF Abs(sliderX - constraintsLeft) < snapDistance
             THEN [state |-> "running", to |-> constraintsLeft]
             ELSE IF Abs(sliderX - constraintsRight) < snapDistance
                  THEN [state |-> "running", to |-> constraintsRight]
                  ELSE [state |-> "none", to |-> 0]
  /\ overshootAnimation' = TRUE
  /\ UNCHANGED <<sliderX, sliderValue, overshoot>>
  /\ UNCHANGED <<filterVars, switchVars>>

\* A frame of the release momentum: it writes x, and may have come to rest.
MomentumStep ==
  /\ momentum.running
  /\ SetX(momentum.to)
  /\ momentum' \in {momentum, Idle(momentum.to)}
  /\ UNCHANGED <<sliderPointerDown, gesture, snap, overshootAnimation>>
  /\ UNCHANGED <<filterVars, switchVars>>

\* A frame of animate(x.get(), targetX, {onUpdate: latest => x.set(latest)}).
SnapStep ==
  /\ snap.state = "running"
  /\ SetX(snap.to)
  /\ snap' \in {snap, [state |-> "done", to |-> snap.to]}
  /\ UNCHANGED <<sliderPointerDown, gesture, momentum, overshootAnimation>>
  /\ UNCHANGED <<filterVars, switchVars>>

\* animate(overshoot, 0, spring) arrives.
OvershootStep ==
  /\ overshootAnimation
  /\ overshoot' = 0
  /\ overshootAnimation' = FALSE
  /\ UNCHANGED <<sliderX, sliderValue, sliderPointerDown, gesture, momentum, snap>>
  /\ UNCHANGED <<filterVars, switchVars>>

InitSlider == Mount({SliderFilterProps}, {TRUE}) /\ ControlsAtRest

NextSlider ==
  \/ onMouseDown
  \/ onMouseUp
  \/ onDragStart
  \/ Drag
  \/ onPointerUp
  \/ onDragEnd
  \/ MomentumStep
  \/ SnapStep
  \/ OvershootStep

SpecSlider == InitSlider /\ [][NextSlider]_vars

\* ---------------------------------------------------------------- claims

\* The rendered node that declares a result name.
HasResult(name) == \E i \in DOMAIN graph : graph[i].result = name

NodeOf(name) == graph[CHOOSE i \in DOMAIN graph : graph[i].result = name]

\* The in and in2 references a node states.
Refs(n) == {n.in, n.in2} \ {NoRef}

\* The magnification stage is part of the rendered graph.
MagnificationEnabled == HasResult("magnified_source")

\* C1: in every combination of optional stages every in and in2 reference
\* of every node is SourceGraphic or the result of an earlier node.
C1_ReferencesResolve ==
  \A i \in DOMAIN graph : \A r \in Refs(graph[i]) :
    \/ r = "SourceGraphic"
    \/ \E j \in 1..(i - 1) : graph[j].result = r

\* C2: the first Gaussian blur reads the last enabled pre-pass (colour
\* matrix, else magnified source, else SourceGraphic), and the colour
\* matrix, when present, reads the magnified source when magnification is
\* enabled and SourceGraphic otherwise.
C2_BlurReadsLastPrePass ==
  LET prior == IF MagnificationEnabled THEN "magnified_source" ELSE "SourceGraphic" IN
    /\ NodeOf("blurred_source").in =
         (IF HasResult("brightened_source") THEN "brightened_source" ELSE prior)
    /\ HasResult("brightened_source") => NodeOf("brightened_source").in = prior

\* The kinds of bitmap the feImage nodes of the graph load.
ConsumedBitmaps ==
  {graph[i].a.href.data.of : i \in {j \in DOMAIN graph : graph[j].op = "feImage"}}

\* C3: with magnifyingScale not supplied the graph has no magnifying image
\* node and no magnifying displacement node, the magnifying bitmap is
\* neither rasterized nor encoded, and the graph loads only the bezel
\* displacement bitmap and the specular bitmap.
C3_NoMagnificationWhenUnset ==
  ~Defined(props.magnifyingScale) =>
    /\ ~HasResult("magnifying_displacement_map")
    /\ ~HasResult("magnified_source")
    /\ \A i \in DOMAIN graph : graph[i].in2 # "magnifying_displacement_map"
    /\ mv["magnifyingDisplacementMap"] = Undefined
    /\ mv["magnifyingDisplacementMapDataUrl"] = Undefined
    /\ ConsumedBitmaps = {"displacement", "specular"}

\* C3 witness: no magnifyingScale, and a frame has run after the canvas
\* size changed.
C3_Witness ==
  /\ ~Defined(props.magnifyingScale)
  /\ flushed
  /\ "width" \in written
  /\ "displacementMap" \in recomputed

\* The caller's scale ratio, 1 when none is supplied.
CurrentScaleRatio == IF Defined(props.scaleRatio) THEN mv["scaleRatio"] ELSE 10

\* C4: the red, green and blue displacement scales are MaxDisplacement x
\* scaleRatio x 0.8, x 0.9 and x 1.0, so they stay in the ratio
\* 0.8 : 0.9 : 1.0 after any sequence of changes.
C4_ChannelScales ==
  LET red == NodeOf("displaced_red").a.scale
      green == NodeOf("displaced_green").a.scale
      blue == NodeOf("displaced_blue").a.scale
  IN /\ red * 10 = blue * 8
     /\ green * 10 = blue * 9
     /\ flushed =>
          /\ blue * 10 = mv["maximumDisplacement"] * CurrentScaleRatio
          /\ green * 100 = mv["maximumDisplacement"] * CurrentScaleRatio * 9
          /\ red * 100 = mv["maximumDisplacement"] * CurrentScaleRatio * 8

\* C4 witness: a frame after the scale ratio and an optical parameter
\* changed, with a non-zero displacement.
C4_Witness ==
  /\ flushed
  /\ "scaleRatio" \in written
  /\ "glassThickness" \in written
  /\ NodeOf("displaced_blue").a.scale > 0

C6_ReadAfterWrite ==
  flushed =>
    LET fresh == Construct(1, props, mv) IN
      /\ \A c \in Cells(props) : mv[c] = fresh[c]
      /\ graph = Filter(props, fresh)

\* C6 witness: a frame after writes to an input shared by two artifacts
\* and to the scale ratio.
C6_Witness ==
  /\ flushed
  /\ {"bezelWidth", "scaleRatio"} \subseteq written

\* The scalar controls that no bitmap is rasterized from.
UnrelatedControls ==
  {"blur", "specularOpacity", "specularSaturation", "scaleRatio", "magnifyingScale",
   "colorScheme"}

\* The field, the bezel and specular bitmaps and their encodings.
RasterizedArtifacts ==
  {"map", "maximumDisplacement", "displacementMap", "displacementMapDataUrl",
   "specularLayer", "specularLayerDataUrl"}

\* The artifacts downstream of each scalar control.
DownstreamOf(n) ==
  CASE n = "scaleRatio" -> {"scale", "scaleRed", "scaleGreen"}
    [] n = "specularOpacity" -> {"specularSlope"}
    [] n = "specularSaturation" -> {"saturateValues"}
    [] n = "colorScheme" -> {"colorMatrixValues"}
    [] OTHER -> {}

\* C7: a frame that follows writes to unrelated scalar controls only
\* recomputes neither the field nor a bitmap nor an encoding, and only
\* artifacts downstream of the written controls.
C7_UnrelatedWritesKeepBitmaps ==
  (flushed /\ written \subseteq UnrelatedControls) =>
    /\ recomputed \cap RasterizedArtifacts = {}
    /\ recomputed \subseteq UNION {DownstreamOf(n) : n \in written}

\* C7 witness: a frame after writes to the scale ratio and the specular
\* opacity, which recomputed something.
C7_Witness ==
  /\ flushed
  /\ written = {"scaleRatio", "specularOpacity"}
  /\ "scale" \in recomputed

OpticalParameters == {"refractiveIndex", "glassThickness", "bezelWidth"}

\* C8: a frame that follows changes of refractiveIndex, glassThickness or
\* bezelWidth only leaves the specular bitmap, its encoded URL and the
\* image the graph loads unchanged.
C8_SpecularGeometryOnly ==
  [][(~flushed /\ flushed' /\ written \subseteq OpticalParameters) =>
       /\ mv'["specularLayer"] = mv["specularLayer"]
       /\ mv'["specularLayerDataUrl"] = mv["specularLayerDataUrl"]
       /\ (NodeOf("specular_layer").a.href)' = NodeOf("specular_layer").a.href]_vars

\* C8 witness: a frame after the bezel width and the refractive index
\* changed, which recomputed the field.
C8_Witness ==
  /\ flushed
  /\ written = {"bezelWidth", "refractiveIndex"}
  /\ "map" \in recomputed

\* feBlend: in is the top layer (the source), in2 the backdrop.
TopLayer(n) == n.in

Backdrop(n) == n.in2

\* C9: the secondary blur's alpha is faded by 0.7 and the blurred and
\* faded layer is blended, as the top layer and in normal mode, over the
\* un-blurred combined result to give displaced.
C9_BlurredLayerOnTop ==
  /\ HasResult("displaced_blurred_faded")
  /\ NodeOf("displaced_blurred_faded").in = "displaced_blurred"
  /\ NodeOf("displaced_blurred_faded").a.funcA.slope = 7
  /\ HasResult("displaced")
  /\ NodeOf("displaced").op = "feBlend"
  /\ NodeOf("displaced").a.mode = "normal"
  /\ TopLayer(NodeOf("displaced")) = "displaced_blurred_faded"
  /\ Backdrop(NodeOf("displaced")) = "displaced_combined"

\* C10: in every configuration the graph holds the secondary blur, the
\* alpha fade of slope 0.7 and the overlay blend, with the same parameters
\* whatever the caller supplies.
C10_OverlayAlwaysPresent ==
  /\ HasResult("displaced_blurred")
  /\ NodeOf("displaced_blurred") =
       Node("feGaussianBlur", "displaced_combined", NoRef, "displaced_blurred",
            [stdDeviation |-> 100])
  /\ HasResult("displaced_blurred_faded")
  /\ NodeOf("displaced_blurred_faded") =
       Node("feComponentTransfer", "displaced_blurred", NoRef, "displaced_blurred_faded",
            [funcA |-> [type |-> "linear", slope |-> 7]])
  /\ HasResult("displaced")
  /\ NodeOf("displaced").op = "feBlend"
  /\ NodeOf("displaced").a = [mode |-> "normal"]
  /\ Refs(NodeOf("displaced")) = {"displaced_combined", "displaced_blurred_faded"}

\* C10 witness: blur 0, specular opacity 0, no colour scheme and no
\* magnification, rendered by a frame.
C10_Witness ==
  /\ flushed
  /\ written = {"blur", "specularOpacity"}
  /\ NodeOf("blurred_source").a.stdDeviation = 0
  /\ NodeOf("specular_faded").a.funcA.slope = 0
  /\ ~Truthy(props.colorScheme)
  /\ ~Truthy(props.magnifyingScale)

\* ------------------------------------------------- chromatic recombination

\* The position of the node that declares a result name.
IndexOf(name) == CHOOSE i \in DOMAIN graph : graph[i].result = name

ScreenBlends == {i \in DOMAIN graph : graph[i].op = "feBlend" /\ graph[i].a.mode = "screen"}

ChannelOf(displaced) ==
  CASE displaced = "displaced_red" -> "red_channel"
    [] displaced = "displaced_green" -> "green_channel"
    [] displaced = "displaced_blue" -> "blue_channel"

DisplacedResults == {"displaced_red", "displaced_green", "displaced_blue"}

\* C11: the graph has exactly two screen blends; the first takes the displaced
\* red and green results, the second takes that blend and the displaced blue
\* result, so each displaced result is consumed once and no channel copy
\* reaches a blend un-displaced.  Every displaced result comes from its own
\* channel copy and the one bezel displacement bitmap, R selecting x and G
\* selecting y, and is declared before the blends.
C11_DisplaceThenRecombine ==
  /\ Cardinality(ScreenBlends) = 2
  /\ LET rg == NodeOf("displaced_rg")
         combined == NodeOf("displaced_combined")
     IN /\ ScreenBlends = {IndexOf("displaced_rg"), IndexOf("displaced_combined")}
        /\ <<rg.in, rg.in2>> = <<"displaced_red", "displaced_green">>
        /\ <<combined.in, combined.in2>> = <<"displaced_rg", "displaced_blue">>
        /\ IndexOf("displaced_rg") < IndexOf("displaced_combined")
  /\ \A d \in DisplacedResults :
        LET n == NodeOf(d) IN
          /\ n.op = "feDisplacementMap"
          /\ n.in = ChannelOf(d)
          /\ n.in2 = "displacement_map"
          /\ n.a.xChannelSelector = "R" /\ n.a.yChannelSelector = "G"
          /\ IndexOf(d) < IndexOf("displaced_rg")
          /\ Cardinality({i \in ScreenBlends : d \in Refs(graph[i])}) = 1
  /\ NodeOf("displacement_map").a.href = mv["displacementMapDataUrl"]

\* A frame has re-rendered the graph after the bezel displacement bitmap
\* changed, and the three displacements use different scales.
C11_Witness ==
  /\ flushed /\ "displacementMapDataUrl" \in recomputed
  /\ NodeOf("displaced_red").a.scale # NodeOf("displaced_blue").a.scale

\* C12: blurred_source is split into exactly three copies; each reads
\* blurred_source, keeps its own channel with slope 1 and sets the other two
\* to slope 0, and no two copies keep the same channel.
ChannelCopies == {i \in DOMAIN graph : graph[i].op = "feComponentTransfer" /\ graph[i].in = "blurred_source"}

KeptChannels(n) ==
  {c \in {"R", "G", "B"} :
     (CASE c = "R" -> n.a.funcR [] c = "G" -> n.a.funcG [] c = "B" -> n.a.funcB).slope # 0}

C12_ChannelSplit ==
  /\ Cardinality(ChannelCopies) = 3
  /\ \A i \in ChannelCopies :
        /\ DOMAIN graph[i].a = {"funcR", "funcG", "funcB"}
        /\ \A f \in DOMAIN graph[i].a :
              graph[i].a[f].type = "linear" /\ graph[i].a[f].slope \in {0, 10}
        /\ Cardinality(KeptChannels(graph[i])) = 1
  /\ KeptChannels(NodeOf("red_channel")) = {"R"}
  /\ KeptChannels(NodeOf("green_channel")) = {"G"}
  /\ KeptChannels(NodeOf("blue_channel")) = {"B"}
  /\ \A i, j \in ChannelCopies :
        i # j => KeptChannels(graph[i]) # KeptChannels(graph[j])

\* The graph has been re-rendered after the caller changed the blur radius
\* of blurred_source, and the three copies are there.
C12_Witness ==
  /\ flushed /\ "blur" \in written
  /\ {graph[i].result : i \in ChannelCopies} = {"red_channel", "green_channel", "blue_channel"}

\* ------------------------------------------------ the last stages, per pixel

\* What the renderer computes at one pixel from the result "displaced" on.
\* A pixel is alpha-premultiplied: its alpha, and how much of each image it
\* shows (the displaced composite, its saturated version, the specular
\* bitmap), all in tenths.  Every primitive of these stages is linear in
\* the premultiplied colours.
Layers == {"displaced", "saturated", "specular"}

Alphas == {0, 5, 10}

BasePixel(layer, alpha) ==
  [w |-> [l \in Layers |-> IF l = layer THEN alpha ELSE 0], a |-> alpha]

Scaled(px, k) == [w |-> [l \in Layers |-> Times(px.w[l], k)], a |-> Times(px.a, k)]

\* feBlend mode="normal": in drawn over in2.
Over(top, bottom) ==
  [w |-> [l \in Layers |-> top.w[l] + Times(bottom.w[l], 10 - top.a)],
   a |-> top.a + Times(bottom.a, 10 - top.a)]

\* feComposite operator="in": in, where in2 has alpha.
CompositeIn(kept, mask) == Scaled(kept, mask.a)

\* feFuncA type="linear" with a slope of at most 1.
FadeAlpha(px, slope) == Scaled(px, slope)

\* feColorMatrix type="saturate": the identity at 1, a change of colour
\* that keeps alpha otherwise.
Saturate(px, values) ==
  IF values = 10
  THEN px
  ELSE [px EXCEPT !.w = [l \in Layers |->
                           CASE l = "displaced" -> 0
                             [] l = "saturated" -> px.w["displaced"] + px.w["saturated"]
                             [] OTHER -> px.w[l]]]

PixelOf(n, env, specularAlpha) ==
  CASE n.op = "feImage" -> BasePixel("specular", specularAlpha)
    [] n.op = "feColorMatrix" -> Saturate(env[n.in], n.a.values.digits)
    [] n.op = "feComposite" -> CompositeIn(env[n.in], env[n.in2])
    [] n.op = "feComponentTransfer" -> FadeAlpha(env[n.in], n.a.funcA.slope)
    [] n.op = "feBlend" -> Over(env[n.in], env[n.in2])

\* The pixel of every result from node i on, in document order.
RECURSIVE PixelsFrom(_, _, _)
PixelsFrom(i, env, specularAlpha) ==
  IF i > Len(graph)
  THEN env
  ELSE PixelsFrom(i + 1,
                  (graph[i].result :> PixelOf(graph[i], env, specularAlpha)) @@ env,
                  specularAlpha)

\* The pixels where the displaced composite has alpha displacedAlpha and
\* the specular bitmap has alpha specularAlpha; the terminal output is the
\* result without a name.
Pixels(displacedAlpha, specularAlpha) ==
  PixelsFrom(IndexOf("displaced") + 1,
             "displaced" :> BasePixel("displaced", displacedAlpha), specularAlpha)

\* C13 as stated: with specularOpacity 0 the terminal output is the
\* saturated displaced composite at every pixel.
C13_ZeroOpacityIsSaturated ==
  (flushed /\ mv["specularOpacity"] = 0) =>
    \A d, s \in Alphas :
      Pixels(d, s)[NoRef] = Pixels(d, s)["displaced_saturated"]

\* C13, amended: with specularOpacity 0 the faded specular bitmap adds
\* nothing and the terminal output is the result withSaturation at every
\* pixel: the saturated composite where the specular bitmap and the
\* composite are opaque, the composite before saturation where the specular
\* bitmap is transparent.
C13_ZeroOpacityIsWithSaturation ==
  (flushed /\ mv["specularOpacity"] = 0) =>
    \A d, s \in Alphas :
      LET px == Pixels(d, s) IN
        /\ px[NoRef] = px["withSaturation"]
        /\ px[NoRef].w["specular"] = 0
        /\ (s = 10 /\ d = 10) => px[NoRef] = px["displaced_saturated"]
        /\ s = 0 => px[NoRef] = px["displaced"]

\* The caller has set specularOpacity to 0, a frame has rendered it, and
\* the specular bitmap is opaque at some pixel.
C13_Witness ==
  /\ flushed /\ "specularOpacity" \in written /\ mv["specularOpacity"] = 0
  /\ NodeOf("specular_faded").a.funcA.slope = 0
  /\ Pixels(10, 10)["specular_layer"].a = 10

\* C14 as stated: the composite with operator "in" keeps the specular
\* bitmap and takes its alpha mask from the displaced composite.
C14_SpecularMaskedByComposite ==
  /\ NodeOf("specular_saturated").a.operator = "in"
  /\ \A d, s \in Alphas :
        LET px == Pixels(d, s) IN
          px["specular_saturated"] = Scaled(px["specular_layer"], px["displaced_saturated"].a)

\* C14, amended: the composite with operator "in" keeps the saturated
\* displaced composite and takes its alpha mask from the specular bitmap:
\* nothing of the specular bitmap's colour is in the result.
C14_CompositeMaskedBySpecular ==
  /\ NodeOf("specular_saturated").op = "feComposite"
  /\ NodeOf("specular_saturated").a.operator = "in"
  /\ \A d, s \in Alphas :
        LET px == Pixels(d, s) IN
          /\ px["specular_saturated"] = Scaled(px["displaced_saturated"], px["specular_layer"].a)
          /\ px["specular_saturated"].w["specular"] = 0
          /\ px["specular_saturated"].a = Times(d, s)

\* A frame has rendered a re-rasterized specular bitmap, and at a pixel
\* where both inputs are opaque the composite shows the saturated composite.
C14_Witness ==
  /\ flushed /\ "specularLayerDataUrl" \in recomputed
  /\ NodeOf("specular_layer").a.href = mv["specularLayerDataUrl"]
  /\ Pixels(10, 10)["specular_saturated"].w["saturated"] = 10

\* ----------------------------------------------------- the terminal blends

NormalBlends == {i \in DOMAIN graph : graph[i].op = "feBlend" /\ graph[i].a.mode = "normal"}

\* The two blends that follow the saturation node, the fade of the specular
\* bitmap, and the layers all of them take except the backdrop of the first.
TerminalBlends ==
  LET last == graph[Len(graph)]
      first == NodeOf("withSaturation")
      faded == NodeOf("specular_faded")
  IN /\ {i \in NormalBlends : i > IndexOf("displaced_saturated")}
          = {IndexOf("withSaturation"), Len(graph)}
     /\ IndexOf("withSaturation") < Len(graph)
     /\ TopLayer(first) = "specular_saturated"
     /\ TopLayer(last) = "specular_faded" /\ Backdrop(last) = "withSaturation"
     /\ faded.op = "feComponentTransfer" /\ faded.in = "specular_layer"
     /\ DOMAIN faded.a = {"funcA"} /\ faded.a.funcA.type = "linear"
     /\ flushed => faded.a.funcA.slope = mv["specularOpacity"]

\* C15 as stated: the terminal output is two normal blends in sequence, the
\* first drawing the masked result over the saturation-adjusted composite,
\* the second drawing over it the specular bitmap faded by the current
\* specularOpacity.
C15_FirstBlendOverSaturated ==
  TerminalBlends /\ Backdrop(NodeOf("withSaturation")) = "displaced_saturated"

\* C15, amended: the terminal output is two normal blends in sequence, the
\* first drawing the masked result over the displaced composite as it is
\* before the saturation node, the second drawing over it the specular
\* bitmap whose alpha slope is the current specularOpacity.
C15_FirstBlendOverDisplaced ==
  /\ TerminalBlends
  /\ Backdrop(NodeOf("withSaturation")) = "displaced"
  /\ Backdrop(NodeOf("withSaturation")) = NodeOf("displaced_saturated").in

\* The caller has changed specularOpacity to a value between 0 and 1 and a
\* frame has rendered it.
C15_Witness ==
  /\ flushed /\ "specularOpacity" \in written /\ mv["specularOpacity"] = 5
  /\ writes = MaxWrites
  /\ NodeOf("specular_faded").a.funcA.slope = 5

\* ------------------------------------------------------------- saturation

\* C16: the saturation node reads the displaced composite, and once a frame
\* has rendered the caller's writes its value is the current
\* specularSaturation, or 4 when the caller supplies none.
C16_SaturationValue ==
  LET n == NodeOf("displaced_saturated") IN
    /\ n.op = "feColorMatrix" /\ n.a.type = "saturate"
    /\ n.in = "displaced"
    /\ Cardinality({i \in DOMAIN graph : graph[i].op = "feColorMatrix" /\ graph[i].a.type = "saturate"}) = 1
    /\ flushed =>
         n.a.values.digits = IF "specularSaturation" \in Supplied(props)
                             THEN mv["specularSaturation"]
                             ELSE 40

\* After two writes the last frame has rendered a specularSaturation other
\* than the one the filter was constructed with.
C16_Witness ==
  /\ flushed /\ writes = MaxWrites /\ written = {"specularSaturation"}
  /\ mv["specularSaturation"] # InitialValue("specularSaturation")
  /\ NodeOf("displaced_saturated").a.values.digits = mv["specularSaturation"]

\* ----------------------------------------------------------- colour scheme

ColorMatrixNodes == {i \in DOMAIN graph : graph[i].op = "feColorMatrix" /\ graph[i].a.type = "matrix"}

\* The colour-matrix node is there exactly when a colour scheme is supplied,
\* and a frame leaves it with the preset of the current scheme.
ColorSchemeNode ==
  /\ ColorMatrixNodes # {} <=> props.colorScheme # Absent
  /\ \A i \in ColorMatrixNodes : graph[i].result = "brightened_source"
  /\ Cardinality(ColorMatrixNodes) <= 1
  /\ (flushed /\ ColorMatrixNodes # {}) =>
       LET values == NodeOf("brightened_source").a.values IN
         /\ mv["colorScheme"] = "dark" => values = DarkMatrix
         /\ mv["colorScheme"] = "light" => values = LightMatrix
         /\ DarkMatrix # LightMatrix

\* A frame that renders a change of colour scheme only.
SchemeSwitch == ~flushed /\ flushed' /\ written = {"colorScheme"}

\* C17: the colour-matrix node is emitted if and only if a colour scheme is
\* supplied; its matrix is the dark preset when the scheme is dark and the
\* light preset when it is light; switching the scheme changes the matrix of
\* that node and nothing else in the graph.
C17_ColorScheme ==
  /\ []ColorSchemeNode
  /\ [][SchemeSwitch =>
          /\ Len(graph') = Len(graph)
          /\ \A i \in DOMAIN graph :
                IF graph[i].result = "brightened_source"
                THEN graph'[i] = [graph[i] EXCEPT !.a.values = graph'[i].a.values]
                ELSE graph'[i] = graph[i]]_vars

\* The caller has switched the scheme from light to dark and a frame has
\* rendered the dark preset.
C17_Witness ==
  /\ flushed /\ written = {"colorScheme"} /\ mv["colorScheme"] = "dark"
  /\ "colorMatrixValues" \in recomputed
  /\ NodeOf("brightened_source").a.values = DarkMatrix

\* ------------------------------------------------------------ result names

ResultNames == [i \in DOMAIN graph |-> graph[i].result]

\* No two nodes declare the same result name; one node declares none, the
\* last one.
DistinctResultNames ==
  /\ \A i, j \in DOMAIN graph :
        (i # j /\ ResultNames[i] # NoRef) => ResultNames[i] # ResultNames[j]
  /\ {i \in DOMAIN graph : ResultNames[i] = NoRef} = {Len(graph)}

\* C18: no two nodes of the graph declare the same result name, exactly one
\* node declares none and it is the last one, and no write or frame changes
\* the result name of any node.
C18_ResultNames ==
  /\ []DistinctResultNames
  /\ [][ResultNames' = ResultNames]_vars

\* A frame has re-rendered a graph with both optional stages after writes
\* that changed a scale and a bitmap.
C18_Witness ==
  /\ flushed /\ writes = MaxWrites
  /\ MagnificationEnabled /\ ColorMatrixNodes # {}
  /\ {"scale", "displacementMapDataUrl"} \subseteq recomputed
  /\ ResultNames[Len(graph)] = NoRef

\* ----------------------------------------------------------- magnification

\* Once rendered, the magnifying bitmap is the one of the current canvas
\* size, the image node shows its encoding, and the displacement node's
\* scale is the caller's current magnifyingScale.
MagnifyingStageCurrent ==
  (flushed /\ MagnificationEnabled) =>
    /\ mv["magnifyingDisplacementMap"]
         = calculateMagnifyingDisplacementMap(ImageSize(props, mv).width,
                                              ImageSize(props, mv).height)
    /\ NodeOf("magnifying_displacement_map").a.href.data = mv["magnifyingDisplacementMap"]
    /\ NodeOf("magnified_source").op = "feDisplacementMap"
    /\ NodeOf("magnified_source").in2 = "magnifying_displacement_map"
    /\ props.magnifyingScale.kind = "motion" =>
         NodeOf("magnified_source").a.scale = mv["magnifyingScale"]
    /\ props.magnifyingScale.kind = "number" =>
         NodeOf("magnified_source").a.scale = props.magnifyingScale.value

\* A frame that renders writes of magnifyingScale only.
MagnifyingScaleFrame == ~flushed /\ flushed' /\ written = {"magnifyingScale"}

\* C19: the magnifying bitmap depends on the canvas width and height only: a
\* change of the value or sign of magnifyingScale leaves the bitmap, its
\* encoding and the image node alone, and the scale of the magnifying
\* displacement node is the caller's current magnifyingScale, sign included.
C19_MagnifyingBitmapAndScale ==
  /\ []MagnifyingStageCurrent
  /\ [][MagnifyingScaleFrame =>
          /\ mv'["magnifyingDisplacementMap"] = mv["magnifyingDisplacementMap"]
          /\ mv'["magnifyingDisplacementMapDataUrl"] = mv["magnifyingDisplacementMapDataUrl"]
          /\ {"magnifyingDisplacementMap", "magnifyingDisplacementMapDataUrl"}
               \cap recomputed' = {}
          /\ NodeOf("magnifying_displacement_map")' = NodeOf("magnifying_displacement_map")]_vars

\* The caller has turned magnifyingScale negative and a frame has rendered
\* the negative scale over the unchanged bitmap.
C19_Witness ==
  /\ flushed /\ written = {"magnifyingScale"} /\ mv["magnifyingScale"] < 0
  /\ MagnificationEnabled
  /\ NodeOf("magnified_source").a.scale = mv["magnifyingScale"]
  /\ mv["magnifyingDisplacementMap"].kind = "ImageData"

\* ------------------------------------------------------- the missing context

ImageNodes == {i \in DOMAIN graph : graph[i].op = "feImage"}

\* The bitmaps the three hooks encode.
EncodedBitmaps == {"magnifyingDisplacementMap", "displacementMap", "specularLayer"}

\* Without a context an encoding is an error, not a URL; no hook keeps an
\* error as its value; every image a graph shows is the URL of a bitmap;
\* and a first render that failed has left no graph at all.
NoPlaceholder ==
  /\ ~context => \A b \in EncodedBitmaps : imageDataToUrl(mv[b]) = Thrown
  /\ \A c \in EncodingCells : mv[c].kind # "error"
  /\ \A i \in ImageNodes :
        graph[i].a.href.kind = "url" /\ graph[i].a.href.data.kind = "ImageData"
  /\ (pass = "aborted" /\ writes = 0) => graph = << >>
  /\ graph = << >> => pass = "aborted"

\* A frame that has a bitmap to encode while there is no context.
EncodingFrame ==
  /\ ~flushed /\ graph # << >> /\ ~context
  /\ writes' = writes /\ context' = context
  /\ Recompute(1, props, mv, written, {}).recomputed \cap EncodingCells # {}

\* C20: when the encoder gets no rendering context the encoding raises an
\* error and yields no URL and no placeholder, and the render or frame it
\* happens in is aborted: a failed first render leaves no graph, a failed
\* frame leaves the graph as it was, and no graph ever shows a blank or
\* missing image.
C20_MissingContextAborts ==
  /\ []NoPlaceholder
  /\ [][EncodingFrame => (pass' = "aborted" /\ graph' = graph /\ mv' = mv)]_vars
  /\ [][pass' = "aborted" => graph' = graph]_vars

\* A frame had to encode the re-rasterized bezel bitmap, found no context
\* and was aborted; the graph still shows the images of the first render.
C20_Witness ==
  /\ pass = "aborted" /\ ~context /\ ~flushed /\ graph # << >>
  /\ "bezelWidth" \in written
  /\ NodeOf("displacement_map").a.href.kind = "url"

\* ------------------------------------------------------- invalid geometry

ValidGeometry ==
  /\ mv["glassThickness"] >= 0 /\ mv["bezelWidth"] >= 0 /\ mv["radius"] >= 0
  /\ mv["width"] > 0 /\ mv["height"] > 0

C22_FlatGlassNoDisplacement ==
  (flushed /\ (mv["bezelWidth"] = 0 \/ mv["refractiveIndex"] = 10)) =>
    /\ \A i \in DOMAIN mv["map"] : mv["map"][i] = 0
    /\ mv["maximumDisplacement"] = 0
    /\ mv["scale"] = 0
    /\ \A d \in DisplacedResults : NodeOf(d).a.scale = 0

\* A frame has rendered refractive index 1 over a bezel that has width and
\* thickness, with a scaleRatio supplied by the caller.
C22_Witness ==
  /\ flushed /\ "refractiveIndex" \in written /\ mv["refractiveIndex"] = 10
  /\ mv["bezelWidth"] > 0 /\ mv["glassThickness"] > 0
  /\ props.scaleRatio # Absent /\ mv["scaleRatio"] > 0
  /\ NodeOf("displaced_blue").a.scale = 0

\* -------------------------------------------------- the Switch's gestures

\* How far the pointer is from where the thumb was pressed.
Travel == Abs(pointerX - initialPointerX)

\* The release of a press on the thumb, and the click that follows it.
ReleaseStep == phase = "pressed" /\ phase' = "released"

ClickStep == phase = "released" /\ event' = "click"

Toggled(c) == IF c < 500 THEN 1000 ELSE 0

\* C23 as stated: a gesture whose release is more than 5 px from its press
\* is decided by the release (checked becomes 1 when xDragRatio > 0.5 and 0
\* otherwise, and the click leaves it alone); every other gesture is decided
\* by the click (the release leaves checked alone and the click toggles it).
C23_OneRulePerGesture ==
  /\ [][ReleaseStep =>
          IF Travel' > 5
          THEN checked' = (IF xDragRatio > 500 THEN 1000 ELSE 0)
          ELSE checked' = checked]_vars
  /\ [][ClickStep =>
          IF Travel > 5
          THEN checked' = checked
          ELSE checked' = Toggled(checked)]_vars

PressStep == phase = "idle" /\ phase' = "pressed"

MoveWhileDown == event' = "move" /\ pointerX' # pointerX /\ 2 * pointerDown > 1

\* C24 as stated: targetX is xDragRatio while the pointer is down and checked
\* otherwise; a press sets xDragRatio and startDragRatio to the current
\* xRatio and leaves targetX where it was; every later move sets xDragRatio
\* to startDragRatio + (clientX - pressX) / TRAVEL clamped to [-0.1, 1.1].
C24_TargetSteadyAtPress ==
  /\ [](targetX = IF pointerDown = 1 THEN xDragRatio ELSE checked)
  /\ [][PressStep =>
          /\ xDragRatio' = xRatio
          /\ startDragRatio' = xRatio
          /\ targetX' = targetX]_vars
  /\ [][MoveWhileDown =>
          xDragRatio' = Clamp(-100, 1100,
                              startDragRatio
                                + ((pointerX' - initialPointerX) * 10000) \div TRAVEL)]_vars

\* C24 amended: targetX is xDragRatio while the pointer is down and checked
\* otherwise; a press sets xDragRatio and startDragRatio to the current
\* xRatio, so right after the press targetX is the thumb's own position (it
\* leaves checked when the press lands while the spring is in flight); every
\* later move keeps startDragRatio and the press position and sets
\* xDragRatio to startDragRatio + (clientX - pressX) / TRAVEL clamped to
\* [-0.1, 1.1].
C24_TargetAtThumbAtPress ==
  /\ [](targetX = IF pointerDown = 1 THEN xDragRatio ELSE checked)
  /\ [](xDragRatio >= -100 /\ xDragRatio <= 1100)
  /\ [][PressStep =>
          /\ xDragRatio' = xRatio
          /\ startDragRatio' = xRatio
          /\ initialPointerX' = pointerX'
          /\ targetX' = xRatio'
          /\ (xRatio = checked => targetX' = targetX)]_vars
  /\ [][MoveWhileDown =>
          /\ startDragRatio' = startDragRatio
          /\ initialPointerX' = initialPointerX
          /\ xDragRatio' = Clamp(-100, 1100,
                                 startDragRatio
                                   + ((pointerX' - initialPointerX) * 10000) \div TRAVEL)]_vars

\* A drag that began while the spring was in flight and has moved since.
C24_Witness ==
  /\ pointerDown = 1
  /\ event = "move"
  /\ startDragRatio = 500
  /\ checked = 1000
  /\ xDragRatio # startDragRatio
  /\ targetX = xDragRatio

\* A step in which no input arrives: only the spring moves.
NoInput == UNCHANGED <<checked, pointerDown, forceActive, xDragRatio, pointerX, event, phase>>

C26_EventsWhileUpAreNoOps ==
  /\ [][((handleGlobalUpdate \/ handleGlobalUp) /\ pointerDown = 0) =>
          UNCHANGED <<checked, xDragRatio, velocityX, previousPointerX, pointerDown>>]_vars
  /\ [][(handleGlobalUp /\ event = "touchend" /\ phase = "released") =>
          UNCHANGED <<checked, pointerDown, forceActive, xDragRatio, initialPointerX,
                      startDragRatio, previousPointerX, velocityX, xRatio>>]_vars

\* A move arrived with the pointer up, and later both events of one release.
C26_Witness ==
  /\ event = "mouseup after touchend"
  /\ pointerDown = 0
  /\ checked = 0
  /\ previousPointerX # pointerX

\* --------------------------------------------------- the Slider's value

\* A step in which x changes: the x change handler has run.
XChange == sliderX' # sliderX

\* C27: the value the x change handler sets lies in [0, 100] and is
\* non-decreasing in x; it is 0 for x in the lowest 5% of the slide range or
\* below it, and 100 for x in the highest 5% or above it.
C27_ValueOfPosition ==
  [][XChange =>
      /\ sliderValue' >= 0 /\ sliderValue' <= ValueUnit
      /\ \A other \in Xs :
           /\ other <= sliderX' => currentValue(other) <= sliderValue'
           /\ other >= sliderX' => currentValue(other) >= sliderValue'
      /\ (sliderX' - constraintsLeft) * 100 <= 5 * totalSlideRange => sliderValue' = 0
      /\ (sliderX' - constraintsLeft) * 100 >= 95 * totalSlideRange =>
           sliderValue' = ValueUnit]_vars

\* The thumb has been at both ends of the lowest and of the highest 5%.
C27_Witness ==
  /\ sliderX = 310700
  /\ sliderValue = ValueUnit
  /\ gesture = "dragging"

\* C28 as stated: the value is 15 where the mapped progress is 0.05 and 85
\* where it is 0.95, and it has no jump at either breakpoint: between two
\* neighbouring positions it changes by no more than the steepest slope (3)
\* allows.
C28_SegmentsMeet ==
  /\ [][(XChange /\ mappedProgress(linearProgress(sliderX')) * 100 = 5 * MappedUnit) =>
          sliderValue' = 15 * ValuePercent]_vars
  /\ [][(XChange /\ mappedProgress(linearProgress(sliderX')) * 100 = 95 * MappedUnit) =>
          sliderValue' = 85 * ValuePercent]_vars
  /\ [][(XChange /\ gesture = "dragging" /\ sliderValue = currentValue(sliderX)) =>
          Abs(sliderValue' - sliderValue)
            <= 3000 * Abs(mappedProgress(linearProgress(sliderX'))
                            - mappedProgress(linearProgress(sliderX)))]_vars

\* C29: on every x change while the pointer is down, overshoot becomes
\* x - constraintsLeft when x < constraintsLeft, x - constraintsRight when
\* x > constraintsRight, and 0 otherwise; an x change while the pointer is
\* up leaves overshoot as it was.
C29_OvershootWhileDown ==
  [][XChange =>
      IF sliderPointerDown = 1
      THEN overshoot' = (IF sliderX' < constraintsLeft
                         THEN sliderX' - constraintsLeft
                         ELSE IF sliderX' > constraintsRight
                              THEN sliderX' - constraintsRight
                              ELSE 0)
      ELSE overshoot' = overshoot]_vars

\* The release momentum has brought x back inside the constraints while the
\* overshoot of the drag is still there.
C29_Witness ==
  /\ sliderPointerDown = 0
  /\ overshoot = 340000 - constraintsRight
  /\ sliderX = constraintsRight
  /\ gesture = "idle"

\* A drag has ended and nothing is running or pressed any more.
AtRest == gesture = "idle" /\ ~momentum.running /\ snap.state # "running"

DragEndStep == gesture = "releasing" /\ gesture' = "idle"

\* C30 as stated: a drag that ends with x closer than snapDistance to a
\* boundary (the left one tested first) animates x to that boundary, and x
\* rests exactly there once the snap and the release momentum are over; any
\* other drag end does not retarget x; every drag end clears pointerDown and
\* animates overshoot back to 0.
C30_SnapRestsAtBoundary ==
  /\ [][DragEndStep =>
          /\ sliderPointerDown' = 0
          /\ overshootAnimation'
          /\ sliderX' = sliderX
          /\ snap' = (IF Abs(sliderX - constraintsLeft) < snapDistance
                      THEN [state |-> "running", to |-> constraintsLeft]
                      ELSE IF Abs(sliderX - constraintsRight) < snapDistance
                           THEN [state |-> "running", to |-> constraintsRight]
                           ELSE [state |-> "none", to |-> 0])]_vars
  /\ []((AtRest /\ snap.state = "done") => sliderX = snap.to)

====
